---- MODULE Spec2Model ----
(***************************************************************************)
(* slack-eod: the three request handlers that aggregate a developer's      *)
(* GitLab activity over a 24 hour window.                                  *)
(*   "eod"    src/src/app/slack-eod/route.ts   (notification, istNow)      *)
(*   "eod2"   src/unnamed/part_001             (notification, new Date())  *)
(*   "debug"  src/unnamed/part_000             (debug-gitlab, JSON report) *)
(* One action per stretch of code between two awaits.  Date values are     *)
(* held in whole seconds since the epoch (the code's milliseconds / 1000), *)
(* so that they fit the model checker's integers.                          *)
(***************************************************************************)
EXTENDS Integers, Sequences, FiniteSets, TLC

VARIABLES
    hostTz,        \* the process's local UTC offset, seconds (TZ of the host)
    pc,            \* the await the handler is suspended at
    route,         \* which handler file is running
    method,        \* "GET" or "POST"
    dateParam,     \* the date parameter handed to the handler
    nowRead,       \* what new Date() returned (Unread when it was not called)
    sinceUtc,      \* sinceIst / sinceUtc
    untilUtc,      \* untilIst / untilUtc
    sinceIso,      \* the window as serialized into the upstream queries
    untilIso,
    labels,        \* <<labelSince, labelUntil>>
    branchesRes,   \* the reply of the branch listing
    mrRes,         \* the reply of the window merge-request listing
    debugBranches, \* debugInfo.branches
    mrBranches,    \* mrBranches
    allBranches,   \* allBranches of the notification handlers, before the Set
    branches,      \* branches (notification) / allBranches (debug): the selected list
    idx,           \* position of the for loop in branches
    commitRes,     \* the replies of the commit queries so far, in order
    commits,       \* commits
    commitsPerBranch, \* debugInfo.commitsPerBranch
    createdMRs,    \* createdMRs / debugInfo.mrsSummary.createdByUser (<<>> or <<list>>)
    reviewedMRs,   \* reviewedMRs / debugInfo.mrsSummary.reviewedByUser
    createdRes,    \* the reply of the authored merge-request query
    reviewedRes,   \* the reply of the reviewed merge-request query
    aiResponse,    \* aiResponse, or the error of the summarizer call
    log,           \* console.warn / console.error lines, in order
    errors,        \* debugInfo.errors
    debugKeys,     \* the fields debugInfo holds (nested ones by their path)
    activity,      \* the rendered digest
    summary,       \* debugInfo.summary
    eodSummary,    \* eodSummary
    posted,        \* the texts slack.chat.postMessage delivered, in order
    response       \* the Response returned to the caller

vars == <<hostTz, pc, route, method, dateParam, nowRead, sinceUtc, untilUtc,
          sinceIso, untilIso, labels, branchesRes, mrRes, debugBranches,
          mrBranches, allBranches, branches, idx, commitRes, commits,
          commitsPerBranch, createdMRs, reviewedMRs, createdRes, reviewedRes,
          aiResponse, log, errors, debugKeys, activity, summary, eodSummary, posted,
          response>>

----------------------------------------------------------------------------
(* Time.                                                                   *)

\* new Date(NaN).getTime(): the time value of an Invalid Date
NaN == -1
\* nowRead before (or without) a call of new Date()
Unread == -2

SecondsPerMinute == 60
SecondsPerHour == 3600
\* 24 * 60 * 60 * 1000 ms
Day == 86400
\* the "+05:30" of the date string, and Asia/Kolkata
IstOffset == 19800
\* 7 * 24 * 60 * 60 * 1000 ms
RecencyMargin == 604800

\* arithmetic on time values: NaN is absorbing
Plus(t, d) == IF t = NaN THEN NaN ELSE t + d

IsLeap(y) == (y % 4 = 0) /\ ((y % 100 # 0) \/ (y % 400 = 0))

DaysInMonth(y, m) ==
    IF m = 2 THEN (IF IsLeap(y) THEN 29 ELSE 28)
    ELSE IF m \in {4, 6, 9, 11} THEN 30 ELSE 31

\* ECMAScript DayFromYear
DayFromYear(y) ==
    365 * (y - 1970) + ((y - 1969) \div 4) - ((y - 1901) \div 100)
        + ((y - 1601) \div 400)

RECURSIVE DaysBeforeMonth(_, _)
DaysBeforeMonth(y, m) ==
    IF m <= 1 THEN 0 ELSE DaysBeforeMonth(y, m - 1) + DaysInMonth(y, m - 1)

\* ECMAScript MakeDay: a day number past the month's end runs into the next month
MakeDay(y, m, d) == DayFromYear(y) + DaysBeforeMonth(y, m) + d - 1

\* ECMAScript MakeDate(MakeDay, MakeTime), in seconds
MakeDate(y, m, d, hh, mi, ss) ==
    MakeDay(y, m, d) * Day + hh * SecondsPerHour + mi * SecondsPerMinute + ss

Years == 1969 .. 2037

YearFromTime(t) ==
    CHOOSE y \in Years : DayFromYear(y) <= t \div Day /\ t \div Day < DayFromYear(y + 1)

MonthFromTime(t) ==
    LET y == YearFromTime(t)
        dayInYear == (t \div Day) - DayFromYear(y)
    IN  CHOOSE m \in 1 .. 12 :
            /\ DaysBeforeMonth(y, m) <= dayInYear
            /\ dayInYear < DaysBeforeMonth(y, m) + DaysInMonth(y, m)

\* the calendar fields of a time value read at UTC offset off
FieldsAt(t, off) ==
    LET l == t + off
        y == YearFromTime(l)
        m == MonthFromTime(l)
    IN  [y |-> y, m |-> m,
         d |-> (l \div Day) - DayFromYear(y) - DaysBeforeMonth(y, m) + 1,
         hh |-> (l % Day) \div SecondsPerHour,
         mi |-> (l % SecondsPerHour) \div SecondsPerMinute,
         ss |-> l % SecondsPerMinute]

\* Date.prototype.toISOString: the UTC fields; it throws on an Invalid Date,
\* which the callers test before they use it
toISOString(t) == FieldsAt(t, 0)

\* d.toLocaleString("en-IN", {timeZone: "Asia/Kolkata", ... hour, minute}):
\* the fields at +05:30 down to the minute; "Invalid Date" for an Invalid Date
InvalidLabel == [y |-> 0, m |-> 0, d |-> 0, hh |-> 0, mi |-> 0]
formatIstLabel(t) ==
    IF t = NaN THEN InvalidLabel
    ELSE LET f == FieldsAt(t, IstOffset)
         IN  [y |-> f.y, m |-> f.m, d |-> f.d, hh |-> f.hh, mi |-> f.mi]

----------------------------------------------------------------------------
(* The request and the window.                                             *)

Routes == {"eod", "eod2", "debug"}
NotifyRoutes == {"eod", "eod2"}

\* the date parameter: missing, "", a string of the shape YYYY-MM-DD, or other text
Absent == [kind |-> "absent", y |-> 0, m |-> 0, d |-> 0]
EmptyString == [kind |-> "empty", y |-> 0, m |-> 0, d |-> 0]
OtherText == [kind |-> "text", y |-> 0, m |-> 0, d |-> 0]
Ymd(y, m, d) == [kind |-> "ymd", y |-> y, m |-> m, d |-> d]
\* a string of the shape YYYY-MM, such as "2024-01"
Ym(y, m) == [kind |-> "ym", y |-> y, m |-> m, d |-> 0]

\* JavaScript truthiness of the parameter: if (dateParam)
Truthy(dp) == dp.kind \notin {"absent", "empty"}

\* a YYYY-MM-DD string that names a day of the calendar
IsCalendarDate(dp) ==
    dp.kind = "ymd" /\ dp.m \in 1 .. 12 /\ dp.d \in 1 .. DaysInMonth(dp.y, dp.m)

\* DateParseIst reading the fields in the host's zone, as for a string
\* without an offset
DateParseHostZone(dp, tz) ==
    IF dp.kind = "ym" /\ dp.m \in 1 .. 12
    THEN {MakeDate(dp.y, dp.m, 1, 0, 0, 0) - tz}
    ELSE IF dp.kind # "ymd" \/ dp.m \notin 1 .. 12 \/ dp.d \notin 1 .. 31
    THEN {NaN}
    ELSE IF dp.d <= DaysInMonth(dp.y, dp.m)
    THEN {MakeDate(dp.y, dp.m, dp.d, 0, 0, 0) - tz}
    ELSE {NaN, MakeDate(dp.y, dp.m, dp.d, 0, 0, 0) - tz}

\* new Date(`${dateParam}T00:00:00+05:30`).getTime(): the time values the
\* engine may produce.  The offset is the string's own, never the host's.
\* "YYYY-MMT00:00:00+05:30" is a date-time form of the ECMAScript format too
\* (the day defaults to 1).  A day of 29..31 past the month's end is outside
\* the format, where the result is implementation-defined: NaN, or (V8) the
\* day carried into the next month.
DateParseIst(dp, tz) ==
    IF dp.kind = "ym" /\ dp.m \in 1 .. 12
    THEN {MakeDate(dp.y, dp.m, 1, 0, 0, 0) - IstOffset}
    ELSE IF dp.kind # "ymd" \/ dp.m \notin 1 .. 12 \/ dp.d \notin 1 .. 31
    THEN {NaN}
    ELSE IF dp.d <= DaysInMonth(dp.y, dp.m)
    THEN {MakeDate(dp.y, dp.m, dp.d, 0, 0, 0) - IstOffset}
    ELSE {NaN, MakeDate(dp.y, dp.m, dp.d, 0, 0, 0) - IstOffset}

\* istMidnightFromDateString (route.ts) / istMidnight (part_000, part_001)
istMidnightFromDateString(dp, tz) == DateParseIst(dp, tz)

\* new Date(s) of a date-time string without an offset: read as host local time
DateParseLocal(f, tz) == MakeDate(f.y, f.m, f.d, f.hh, f.mi, f.ss) - tz

\* istNow (route.ts): the wall clock of Asia/Kolkata, printed without an
\* offset and parsed again as host local time
istNow(now, tz) == DateParseLocal(FieldsAt(now, IstOffset), tz)

\* the upper end of the rolling window
RollingUntil(r, now, tz) == IF r = "eod" THEN istNow(now, tz) ELSE now

\* the if (dateParam) ... else ... of the three handlers: the windows the
\* handler may compute, with the clock reading it used
ResolveWindow(r, dp, now, tz) ==
    IF Truthy(dp)
    THEN {[since |-> s, until |-> Plus(s, Day), nowRead |-> Unread] :
              s \in istMidnightFromDateString(dp, tz)}
    ELSE {[since |-> RollingUntil(r, now, tz) - Day,
           until |-> RollingUntil(r, now, tz), nowRead |-> now]}

NoIso == [y |-> 0, m |-> 0, d |-> 0, hh |-> 0, mi |-> 0, ss |-> 0]
NoResponse == [status |-> 0, ok |-> "unset", error |-> "none"]
\* Response.json({ ok: false, error: error.message }, { status: 500 })
Failure(msg) == [status |-> 500, ok |-> "false", error |-> msg]
\* Response.json(result) with result = { ok: true, message }
Sent == [status |-> 200, ok |-> "true", error |-> "none"]
\* Response.json(debugInfo, { status: 200 }): debugInfo has no ok field
Report == [status |-> 200, ok |-> "unset", error |-> "none"]

NoDigest == [count |-> -1, commits |-> <<>>, created |-> <<>>, reviewed |-> <<>>]
NoSummary == [totalBranches |-> -1, totalCommitsByYou |-> -1,
              mrsCreatedByYou |-> -1, mrsReviewedByYou |-> -1]

\* const debugInfo: any = { timeWindow, config, branches, commitsPerBranch,
\* mrsSummary, errors }
DebugInfoInit ==
    {"timeWindow", "config", "branches", "commitsPerBranch", "mrsSummary", "errors"}

\* a message text: the rendered digest itself, or the summarizer's words
NoText == [kind |-> "unset", text |-> <<>>, digest |-> NoDigest]
RawDigest(act) == [kind |-> "activity", text |-> <<>>, digest |-> act]
AiText(chars) == [kind |-> "ai", text |-> chars, digest |-> NoDigest]

Warn(what, branch) == [level |-> "warn", what |-> what, branch |-> branch]
ErrorLine(what) == [level |-> "error", what |-> what, branch |-> ""]

InitWith(hosts) ==
    /\ hostTz \in hosts
    /\ pc = "idle"
    /\ route = "none"
    /\ method = "none"
    /\ dateParam = Absent
    /\ nowRead = Unread
    /\ sinceUtc = NaN
    /\ untilUtc = NaN
    /\ sinceIso = NoIso
    /\ untilIso = NoIso
    /\ labels = <<InvalidLabel, InvalidLabel>>
    /\ branchesRes = <<>>
    /\ mrRes = <<>>
    /\ debugBranches = <<>>
    /\ mrBranches = <<>>
    /\ allBranches = <<>>
    /\ branches = <<>>
    /\ idx = 0
    /\ commitRes = <<>>
    /\ commits = <<>>
    /\ commitsPerBranch = <<>>
    /\ createdMRs = <<>>
    /\ reviewedMRs = <<>>
    /\ createdRes = <<>>
    /\ reviewedRes = <<>>
    /\ aiResponse = <<>>
    /\ log = <<>>
    /\ errors = <<>>
    /\ debugKeys = {}
    /\ activity = NoDigest
    /\ summary = NoSummary
    /\ eodSummary = NoText
    /\ posted = <<>>
    /\ response = NoResponse

\* handleEODRequest / the debug GET from its first line to its first await:
\* the window, its ISO form (toISOString throws RangeError on an Invalid
\* Date, which the handler's catch turns into the 500 response) and labels
Enter(r, meth, dp, w) ==
    /\ route' = r
    /\ method' = meth
    /\ dateParam' = dp
    /\ nowRead' = w.nowRead
    /\ sinceUtc' = w.since
    /\ untilUtc' = w.until
    /\ IF w.since = NaN
       THEN /\ response' = Failure("Invalid time value")
            /\ log' = Append(log, ErrorLine(meth))
            /\ pc' = "done"
            /\ UNCHANGED <<sinceIso, untilIso, labels>>
       ELSE /\ sinceIso' = toISOString(w.since)
            /\ untilIso' = toISOString(w.until)
            /\ labels' = <<formatIstLabel(w.since), formatIstLabel(w.until)>>
            /\ pc' = "branches"
            /\ UNCHANGED <<response, log>>
    /\ debugKeys' = IF r = "debug" /\ w.since # NaN THEN DebugInfoInit ELSE {}
    /\ UNCHANGED <<aiResponse, createdRes, reviewedRes, hostTz, branchesRes,
                   mrRes, debugBranches, mrBranches,
                   allBranches, branches, idx, commitRes, commits,
                   commitsPerBranch, createdMRs, reviewedMRs, errors, activity,
                   summary, eodSummary, posted>>

\* export async function GET: url.searchParams.get("date")
GET(r, dates, nows) ==
    /\ pc = "idle"
    /\ \E dp \in dates, now \in nows :
           \E w \in ResolveWindow(r, dp, now, hostTz) : Enter(r, "GET", dp, w)

\* export async function POST: body = await req.json().catch(() => ({}));
\* body.date ?? undefined.  A body that is the JSON null makes body.date
\* throw TypeError, caught by the handler's catch.
POST(r, bodies, nows) ==
    /\ pc = "idle"
    /\ \E b \in bodies, now \in nows :
          IF b.json = "null"
          THEN /\ route' = r
               /\ method' = "POST"
               /\ response' = Failure("TypeError")
               /\ log' = Append(log, ErrorLine("POST"))
               /\ pc' = "done"
               /\ UNCHANGED <<aiResponse, createdRes, reviewedRes, hostTz,
                              dateParam, nowRead, sinceUtc, untilUtc,
                              sinceIso, untilIso, labels, branchesRes, mrRes,
                              debugBranches, mrBranches, allBranches, branches,
                              idx, commitRes, commits, commitsPerBranch,
                              createdMRs, reviewedMRs, errors, debugKeys,
                              activity, summary, eodSummary, posted>>
          ELSE LET dp == IF b.json = "object" THEN b.date ELSE Absent
               IN  \E w \in ResolveWindow(r, dp, now, hostTz) :
                       Enter(r, "POST", dp, w)

----------------------------------------------------------------------------
(* Branch selection.                                                       *)

\* an upstream reply: ok with its data, or an error with the HTTP status of
\* err.response (NoHttp when the error carries no response)
NoHttp == 0
Ok(data) == [ok |-> TRUE, status |-> 200, data |-> data]
Err(status) == [ok |-> FALSE, status |-> status, data |-> <<>>]

\* a name that JavaScript's Boolean() takes for false: null or ""
NoName == ""

\* one entry of the branch listing: b.name, b.commit (hasCommit), b.commit.created_at
Branch(name, hasCommit, at) == [name |-> name, hasCommit |-> hasCommit, created_at |-> at]

\* new Date(until.getTime() - 7 * 24 * 60 * 60 * 1000), the margin as a parameter
Cutoff(until, margin) == until - margin

\* IsActive with >= for >
IsActiveInclusive(b, until, margin) == b.hasCommit /\ b.created_at >= Cutoff(until, margin)

\* IsActive with the comparison turned round
IsActiveReversed(b, until, margin) == b.hasCommit /\ b.created_at < Cutoff(until, margin)

\* b.commit && new Date(b.commit.created_at) > cutoff
IsActive(b, until, margin) == b.hasCommit /\ b.created_at > Cutoff(until, margin)

Names(data) == [i \in 1 .. Len(data) |-> data[i].name]

\* branchesRes.data.filter(...).map((b) => b.name)
ActiveBranches(data, until, margin) ==
    LET Test(b) == IsActive(b, until, margin)
    IN  Names(SelectSeq(data, Test))

\* xs.filter(Boolean)
FilterBoolean(xs) ==
    LET Test(x) == x # NoName
    IN  SelectSeq(xs, Test)

\* ArrayFromSet without the Set
ArrayFromSetKeepAll(xs) == xs

\* Array.from(new Set(xs)): each value once, in the order of first insertion
ArrayFromSet(xs) ==
    LET F[i \in 0 .. Len(xs)] ==
            IF i = 0 THEN <<>>
            ELSE IF \E j \in 1 .. Len(F[i - 1]) : F[i - 1][j] = xs[i]
                 THEN F[i - 1]
                 ELSE Append(F[i - 1], xs[i])
    IN  F[Len(xs)]

\* mrRes.data.map((mr) => mr.source_branch).filter(Boolean)
MrSourceBranches(data) ==
    FilterBoolean([i \in 1 .. Len(data) |-> data[i].source_branch])

\* Array.from(new Set(allBranches.filter(Boolean)))          (route.ts, part_001)
SelectNotify(all) == ArrayFromSet(FilterBoolean(all))

\* Array.from(new Set([...activeBranches, ...mrBranches])).filter(Boolean)  (part_000)
SelectDebug(active, mrs) == FilterBoolean(ArrayFromSet(active \o mrs))

\* debugInfo.branches.filter((b) => b.isActive).map((b) => b.name)
DebugActive(dbs) ==
    LET Test(b) == b.isActive
    IN  Names(SelectSeq(dbs, Test))

\* debugInfo.branches = branchesRes.data.map(...)
DebugBranchesOf(data, until) ==
    [i \in 1 .. Len(data) |->
        [name |-> data[i].name, isActive |-> IsActive(data[i], until, RecencyMargin)]]

\* AfterBranches without the catch: the error ends the handler
AfterBranchesRaising(rep) == IF rep.ok THEN "windowMRs" ELSE "done"

\* try { ... } catch (err) { console.warn(...) } around the branch listing:
\* with or without an error the handler goes on to the merge-request listing
AfterBranches(rep) == "windowMRs"

\* step 1: the branch listing returns
FetchBranches(replies) ==
    /\ pc = "branches"
    /\ \E rep \in replies :
        /\ branchesRes' = <<rep>>
        /\ IF route = "debug"
           THEN /\ debugBranches' =
                       IF rep.ok THEN DebugBranchesOf(rep.data, untilUtc) ELSE debugBranches
                /\ debugKeys' = IF rep.ok THEN debugKeys \cup {"branchStats"} ELSE debugKeys
                /\ errors' = IF rep.ok THEN errors ELSE Append(errors, Warn("branches", ""))
                /\ log' = IF rep.ok THEN log ELSE Append(log, ErrorLine("branches"))
                /\ UNCHANGED allBranches
           ELSE /\ allBranches' =
                       IF rep.ok
                       THEN allBranches \o ActiveBranches(rep.data, untilUtc, RecencyMargin)
                       ELSE allBranches
                /\ log' = IF rep.ok THEN log ELSE Append(log, Warn("branches", ""))
                /\ UNCHANGED <<debugBranches, debugKeys, errors>>
        /\ pc' = AfterBranches(rep)
    /\ UNCHANGED <<aiResponse, createdRes, reviewedRes, hostTz, route, method,
                   dateParam, nowRead, sinceUtc, untilUtc,
                   sinceIso, untilIso, labels, mrRes, mrBranches, branches, idx,
                   commitRes, commits, commitsPerBranch, createdMRs, reviewedMRs,
                   activity, summary, eodSummary, posted, response>>

\* one merge request of a listing: its id and mr.source_branch
MR(id, source) == [id |-> id, source_branch |-> source]

\* DedupeById keeping the last record of an id instead of the first
DedupeKeepLast(cs) ==
    LET Test(i) == \A j \in (i + 1) .. Len(cs) : cs[j].id # cs[i].id
        F[i \in 0 .. Len(cs)] ==
            IF i = 0 THEN <<>>
            ELSE IF Test(i) THEN Append(F[i - 1], cs[i]) ELSE F[i - 1]
    IN  F[Len(cs)]

\* const seen = new Set(); commits.filter((c) => { if (seen.has(c.id)) return
\* false; seen.add(c.id); return true; })
DedupeById(cs) ==
    LET F[i \in 0 .. Len(cs)] ==
            IF i = 0 THEN [seen |-> {}, out |-> <<>>]
            ELSE IF cs[i].id \in F[i - 1].seen
                 THEN F[i - 1]
                 ELSE [seen |-> F[i - 1].seen \cup {cs[i].id},
                       out |-> Append(F[i - 1].out, cs[i])]
    IN  F[Len(cs)].out

\* what the notification handlers do with the collected commits once the for
\* loop is over; the debug handler keeps its per-branch lists as they are
AfterLoop(r, cs) == IF r = "debug" THEN cs ELSE DedupeById(cs)

\* try { ... } catch (err) { console.warn(...) } around the merge-request
\* listing: with or without an error the handler goes on to the for loop,
\* which an empty branch list skips
AfterWindowMRs(rep, sel) == IF sel = <<>> THEN "created" ELSE "commits"

\* step 1, second half: the window merge-request listing returns, the branch
\* list is made, and the for loop over it starts
FetchWindowMRs(replies) ==
    /\ pc = "windowMRs"
    /\ \E rep \in replies :
        /\ mrRes' = <<rep>>
        /\ mrBranches' = IF rep.ok THEN MrSourceBranches(rep.data) ELSE <<>>
        /\ IF route = "debug"
           THEN /\ debugKeys' =
                       (IF rep.ok THEN debugKeys \cup {"mrsSummary.updatedInWindow"}
                        ELSE debugKeys) \cup {"branchSelection"}
                /\ errors' = IF rep.ok THEN errors ELSE Append(errors, Warn("windowMRs", ""))
                /\ log' = IF rep.ok THEN log ELSE Append(log, ErrorLine("windowMRs"))
                /\ branches' = SelectDebug(DebugActive(debugBranches), mrBranches')
                /\ UNCHANGED allBranches
           ELSE /\ allBranches' = allBranches \o mrBranches'
                /\ log' = IF rep.ok THEN log ELSE Append(log, Warn("windowMRs", ""))
                /\ branches' = SelectNotify(allBranches')
                /\ UNCHANGED <<debugKeys, errors>>
        /\ pc' = AfterWindowMRs(rep, branches')
    /\ IF branches' = <<>>
       THEN /\ commits' = AfterLoop(route, commits)
            /\ UNCHANGED idx
       ELSE /\ idx' = 1
            /\ UNCHANGED commits
    /\ UNCHANGED <<aiResponse, createdRes, reviewedRes, hostTz, route, method,
                   dateParam, nowRead, sinceUtc, untilUtc,
                   sinceIso, untilIso, labels, branchesRes, debugBranches,
                   commitRes, commitsPerBranch, createdMRs, reviewedMRs,
                   activity, summary, eodSummary, posted, response>>

----------------------------------------------------------------------------
(* Commit collection.                                                      *)

\* res.data.map((c) => ({ id: c.id, title, web_url, branch })): title and
\* web_url belong to the id
Tagged(ids, branch) == [i \in 1 .. Len(ids) |-> [id |-> ids[i], branch |-> branch]]

\* PushCommits with a catch that empties the list
PushCommitsLosing(cs, rep, branch) ==
    IF rep.ok /\ Len(rep.data) > 0 THEN cs \o Tagged(rep.data, branch)
    ELSE IF rep.ok THEN cs ELSE <<>>

\* if (res.data?.length) commits.push(...)                  (route.ts, part_001)
PushCommits(cs, rep, branch) ==
    IF rep.ok /\ Len(rep.data) > 0 THEN cs \o Tagged(rep.data, branch) ELSE cs

\* if (err.response?.status && err.response.status !== 404) console.warn(...)
WarnsNotify(rep) == ~rep.ok /\ rep.status # NoHttp /\ rep.status # 404

\* if (status !== 404) console.warn(...)                              (part_000)
WarnsDebug(rep) == ~rep.ok /\ rep.status # 404

\* debugInfo.commitsPerBranch[branch] = { count, commits } or { error, count: 0,
\* commits: [] }
BranchEntry(rep) ==
    IF rep.ok THEN [count |-> Len(rep.data), commits |-> rep.data, error |-> FALSE]
    ELSE [count |-> 0, commits |-> <<>>, error |-> TRUE]

\* one turn of for (const branch of branches): the commit query of
\* branches[idx] returns
FetchCommits(replies) ==
    /\ pc = "commits"
    /\ \E rep \in replies :
        LET branch == branches[idx] IN
        /\ commitRes' = Append(commitRes, [branch |-> branch, reply |-> rep])
        /\ IF route = "debug"
           THEN /\ commitsPerBranch' =
                       [b \in DOMAIN commitsPerBranch \cup {branch} |->
                           IF b = branch THEN BranchEntry(rep) ELSE commitsPerBranch[b]]
                /\ log' = IF WarnsDebug(rep) THEN Append(log, Warn("commits", branch)) ELSE log
                /\ UNCHANGED commits
           ELSE /\ commits' =
                       IF idx < Len(branches)
                       THEN PushCommits(commits, rep, branch)
                       ELSE AfterLoop(route, PushCommits(commits, rep, branch))
                /\ log' = IF WarnsNotify(rep) THEN Append(log, Warn("commits", branch)) ELSE log
                /\ UNCHANGED commitsPerBranch
    /\ IF idx < Len(branches)
       THEN idx' = idx + 1 /\ pc' = "commits"
       ELSE idx' = idx /\ pc' = "created"
    /\ UNCHANGED <<aiResponse, createdRes, reviewedRes, hostTz, route, method,
                   dateParam, nowRead, sinceUtc, untilUtc,
                   sinceIso, untilIso, labels, branchesRes, mrRes, debugBranches,
                   mrBranches, allBranches, branches, createdMRs, reviewedMRs,
                   errors, debugKeys, activity, summary, eodSummary, posted,
                   response>>

----------------------------------------------------------------------------
(* Merge-request collectors, digest, summarizer, delivery.                 *)

\* one rendered line: a commit line, a merge-request line, or the word None
NoneLine == [kind |-> "None", id |-> 0, branch |-> ""]
CommitLines(cs) ==
    [i \in 1 .. Len(cs) |-> [kind |-> "commit", id |-> cs[i].id, branch |-> cs[i].branch]]
MrLines(ms) == [i \in 1 .. Len(ms) |-> [kind |-> "mr", id |-> ms[i].id, branch |-> ""]]

\* Section without the fallback: an empty list renders as nothing
SectionNoFallback(lines) == lines

\* ${lines.length ? lines.join("\n") : "None"}
Section(lines) == IF Len(lines) > 0 THEN lines ELSE <<NoneLine>>

\* const activity = `Commits (${commitLines.length}): ... MRs Created: ... MRs Reviewed: ...`
BuildActivity(cs, created, reviewed) ==
    [count |-> Len(CommitLines(cs)),
     commits |-> Section(CommitLines(cs)),
     created |-> Section(created),
     reviewed |-> Section(reviewed)]

\* Object.values(debugInfo.commitsPerBranch).reduce((sum, b) => sum + (b.count || 0), 0)
RECURSIVE SumCounts(_, _)
SumCounts(per, bs) ==
    IF bs = {} THEN 0
    ELSE LET b == CHOOSE x \in bs : TRUE
         IN  per[b].count + SumCounts(per, bs \ {b})

\* debugInfo.summary
BuildSummary(sel, per, keys, created, reviewed) ==
    [totalBranches |-> Len(sel),
     totalCommitsByYou |-> SumCounts(per, DOMAIN per),
     mrsCreatedByYou |->
         IF "mrsSummary.createdByUser" \in keys THEN Len(created) ELSE 0,
     mrsReviewedByYou |->
         IF "mrsSummary.reviewedByUser" \in keys THEN Len(reviewed) ELSE 0]

\* AfterCreated with one try around both merge-request queries: an error of
\* the first skips the second
AfterCreatedSharedTry(rep) == IF rep.ok THEN "reviewed" ELSE "done"

\* try { ... } catch (err) { console.warn(...) } around the authored query
\* alone: with or without an error the reviewed query is next
AfterCreated(rep) == "reviewed"

\* step 3 (5 in part_000): the authored merge requests return
FetchCreated(replies) ==
    /\ pc = "created"
    /\ \E rep \in replies :
        /\ createdRes' = <<rep>>
        /\ pc' = AfterCreated(rep)
        /\ createdMRs' = IF rep.ok THEN MrLines(rep.data) ELSE createdMRs
        /\ IF route = "debug"
           THEN /\ debugKeys' =
                       IF rep.ok THEN debugKeys \cup {"mrsSummary.createdByUser"}
                       ELSE debugKeys
                /\ errors' = IF rep.ok THEN errors ELSE Append(errors, Warn("created", ""))
                /\ log' = IF rep.ok THEN log ELSE Append(log, ErrorLine("created"))
           ELSE /\ log' = IF rep.ok THEN log ELSE Append(log, Warn("created", ""))
                /\ UNCHANGED <<debugKeys, errors>>
    /\ UNCHANGED <<aiResponse, reviewedRes, hostTz, route, method, dateParam,
                   nowRead, sinceUtc, untilUtc,
                   sinceIso, untilIso, labels, branchesRes, mrRes, debugBranches,
                   mrBranches, allBranches, branches, idx, commitRes, commits,
                   commitsPerBranch, reviewedMRs, activity, summary, eodSummary,
                   posted, response>>

\* step 4 (6 in part_000): the reviewed merge requests return; then the
\* digest and let eodSummary = activity (notification), or the summary and
\* the 200 response (debug)
FetchReviewed(replies) ==
    /\ pc = "reviewed"
    /\ \E rep \in replies :
        /\ reviewedRes' = <<rep>>
        /\ reviewedMRs' = IF rep.ok THEN MrLines(rep.data) ELSE reviewedMRs
        /\ IF route = "debug"
           THEN /\ debugKeys' =
                       (IF rep.ok THEN debugKeys \cup {"mrsSummary.reviewedByUser"}
                        ELSE debugKeys) \cup {"summary"}
                /\ errors' = IF rep.ok THEN errors ELSE Append(errors, Warn("reviewed", ""))
                /\ log' = IF rep.ok THEN log ELSE Append(log, ErrorLine("reviewed"))
                /\ summary' = BuildSummary(branches, commitsPerBranch, debugKeys',
                                           createdMRs, reviewedMRs')
                /\ response' = Report
                /\ pc' = "done"
                /\ UNCHANGED <<activity, eodSummary>>
           ELSE /\ log' = IF rep.ok THEN log ELSE Append(log, Warn("reviewed", ""))
                /\ activity' = BuildActivity(commits, createdMRs, reviewedMRs')
                /\ eodSummary' = RawDigest(activity')
                /\ pc' = "summarize"
                /\ UNCHANGED <<debugKeys, errors, summary, response>>
    /\ UNCHANGED <<aiResponse, createdRes, hostTz, route, method, dateParam,
                   nowRead, sinceUtc, untilUtc,
                   sinceIso, untilIso, labels, branchesRes, mrRes, debugBranches,
                   mrBranches, allBranches, branches, idx, commitRes, commits,
                   commitsPerBranch, createdMRs, posted>>

\* String.prototype.trim on a text held as a sequence of characters
RECURSIVE TrimStart(_)
TrimStart(t) == IF t # <<>> /\ Head(t) = " " THEN TrimStart(Tail(t)) ELSE t
RECURSIVE TrimEnd(_)
TrimEnd(t) ==
    IF t # <<>> /\ t[Len(t)] = " " THEN TrimEnd(SubSeq(t, 1, Len(t) - 1)) ELSE t
Trim(t) == TrimEnd(TrimStart(t))

\* SummaryOf with ?? in the place of ||: an empty text is not replaced
SummaryOfNullish(rep, act) ==
    IF rep.ok /\ rep.has THEN AiText(Trim(rep.content)) ELSE RawDigest(act)

\* aiResponse.choices?.[0]?.message?.content?.trim() || activity
SummaryOf(rep, act) ==
    IF rep.ok /\ rep.has /\ Trim(rep.content) # <<>>
    THEN AiText(Trim(rep.content))
    ELSE RawDigest(act)

\* step 6: the summarizer returns
Summarize(replies) ==
    /\ pc = "summarize"
    /\ \E rep \in replies :
        /\ aiResponse' = <<rep>>
        /\ eodSummary' = IF rep.ok THEN SummaryOf(rep, activity) ELSE eodSummary
        /\ log' = IF rep.ok THEN log ELSE Append(log, Warn("openai", ""))
    /\ pc' = "post"
    /\ UNCHANGED <<createdRes, reviewedRes, hostTz, route, method, dateParam,
                   nowRead, sinceUtc, untilUtc,
                   sinceIso, untilIso, labels, branchesRes, mrRes, debugBranches,
                   mrBranches, allBranches, branches, idx, commitRes, commits,
                   commitsPerBranch, createdMRs, reviewedMRs, errors, debugKeys,
                   activity, summary, posted, response>>

\* step 7: slack.chat.postMessage returns or throws; the handler's return,
\* or the catch of GET / POST
PostMessage(outcomes) ==
    /\ pc = "post"
    /\ \E delivered \in outcomes :
        IF delivered
        THEN /\ posted' = Append(posted, eodSummary)
             /\ response' = Sent
             /\ UNCHANGED log
        ELSE /\ response' = Failure("slack")
             /\ log' = Append(log, ErrorLine(method))
             /\ UNCHANGED posted
    /\ pc' = "done"
    /\ UNCHANGED <<aiResponse, createdRes, reviewedRes, hostTz, route, method,
                   dateParam, nowRead, sinceUtc, untilUtc,
                   sinceIso, untilIso, labels, branchesRes, mrRes, debugBranches,
                   mrBranches, allBranches, branches, idx, commitRes, commits,
                   commitsPerBranch, createdMRs, reviewedMRs, errors, debugKeys,
                   activity, summary, eodSummary>>

----------------------------------------------------------------------------
(* The inputs.  Every input class comes in three widths: "rich" (the cases *)
(* a claim about that stage needs), "lean" (success or failure) and "one"  *)
(* (the plain success); a specification is wide in the stage it examines.  *)

\* longest branch listing, longest merge-request listing, and the number of
\* commit ids (so also the longest commit listing of a branch)
MaxListing == 2
MaxMRs == 2
MaxCommits == 2

AllNames == <<"main", "feature-x", "hotfix", "release">>

\* 2024-01-15T10:00:00Z, and 2024-02-29T20:00:00Z (already 1 March in IST)
Now1 == MakeDate(2024, 1, 15, 10, 0, 0)
Now2 == MakeDate(2024, 2, 29, 20, 0, 0)

\* UTC, Asia/Kolkata, America/New_York (winter)
Hosts(w) == IF w = "rich" THEN {0, IstOffset, 0 - 5 * SecondsPerHour} ELSE {0}

Nows(w) == IF w = "rich" THEN {Now1, Now2} ELSE {Now1}

CalendarDates == {Ymd(2024, 1, 1), Ymd(2024, 3, 1), Ymd(2023, 3, 1), Ymd(2024, 2, 29)}
\* a day past the month's end, a 13th month, a 32nd day, a month without a day
OffCalendar ==
    {Ymd(2024, 2, 30), Ymd(2023, 2, 29), Ymd(2024, 13, 1), Ymd(2024, 1, 32), Ym(2024, 1)}

DateParams(w) ==
    IF w = "rich"
    THEN {Absent, EmptyString, OtherText} \cup CalendarDates \cup OffCalendar
    ELSE {Absent, Ymd(2024, 1, 1), OtherText}

Body(json, dp) == [json |-> json, date |-> dp]
Bodies(w) ==
    IF w = "rich"
    THEN {Body("object", dp) : dp \in DateParams(w)}
             \cup {Body("null", Absent), Body("unparsable", Absent)}
    ELSE {Body("object", Ymd(2024, 1, 1)), Body("null", Absent)}

\* the latest commit of a listed branch: none, or this long before until
NoCommit == 0
Ages == {RecencyMargin - 1, RecencyMargin}
Listings(until) ==
    UNION {{[i \in 1 .. k |->
                Branch(AllNames[i], f[i] # NoCommit,
                       IF f[i] = NoCommit THEN NaN ELSE until - f[i])] :
            f \in [1 .. k -> Ages \cup {NoCommit}]} : k \in 0 .. MaxListing}

TwoActive(until) ==
    <<Branch("main", TRUE, until - Day), Branch("feature-x", TRUE, until - Day)>>

BranchReplies(w, until) ==
    CASE w = "rich" -> {Err(500), Err(NoHttp)} \cup {Ok(l) : l \in Listings(until)}
      [] w = "lean" -> {Err(500), Ok(TwoActive(until))}
      [] OTHER -> {Ok(TwoActive(until))}

Sources == {"main", "feature-x", NoName}
MrListings ==
    UNION {{[i \in 1 .. k |-> MR(i, f[i])] : f \in [1 .. k -> Sources]} :
           k \in 0 .. MaxMRs}

MrReplies(w) ==
    CASE w = "rich" -> {Err(500), Err(NoHttp)} \cup {Ok(l) : l \in MrListings}
      [] w = "lean" -> {Err(500), Ok(<<MR(1, "feature-x"), MR(2, "main")>>)}
      [] OTHER -> {Ok(<<MR(1, "feature-x"), MR(2, "main")>>)}

\* the commit listings of one branch: no id twice
CommitIds == 1 .. MaxCommits
CommitListings ==
    UNION {{f \in [1 .. k -> CommitIds] : \A i, j \in 1 .. k : f[i] = f[j] => i = j} :
           k \in 0 .. MaxCommits}

CommitReplies(w) ==
    CASE w = "rich" -> {Err(404), Err(500), Err(NoHttp)} \cup {Ok(l) : l \in CommitListings}
      [] w = "lean" -> {Err(500), Ok(<<1>>)}
      [] OTHER -> {Ok(<<1>>)}

AuthoredReplies(w) ==
    IF w = "rich" THEN {Err(500), Ok(<<>>), Ok(<<MR(7, "feature-x")>>)}
    ELSE {Ok(<<MR(7, "feature-x")>>)}

ReviewedReplies(w) ==
    IF w = "rich" THEN {Err(500), Ok(<<>>), Ok(<<MR(8, "other")>>)}
    ELSE {Ok(<<MR(8, "other")>>)}

Ai(ok, has, content) == [ok |-> ok, has |-> has, content |-> content]
AiReplies(w) ==
    IF w = "rich"
    THEN {Ai(FALSE, FALSE, <<>>), Ai(TRUE, FALSE, <<>>), Ai(TRUE, TRUE, <<>>),
          Ai(TRUE, TRUE, <<" ">>), Ai(TRUE, TRUE, <<" ", "x", " ">>)}
    ELSE {Ai(TRUE, TRUE, <<"x">>)}

Deliveries(w) == IF w = "rich" THEN {TRUE, FALSE} ELSE {TRUE}

----------------------------------------------------------------------------
(* Specifications.                                                         *)

\* Spec: every fetch may fail or succeed; the stages after the commits wide
Init == InitWith(Hosts("lean"))
Next ==
    \/ \E r \in Routes : GET(r, DateParams("lean"), Nows("lean"))
    \/ \E r \in NotifyRoutes : POST(r, Bodies("lean"), Nows("lean"))
    \/ FetchBranches(BranchReplies("lean", untilUtc))
    \/ FetchWindowMRs(MrReplies("lean"))
    \/ FetchCommits(CommitReplies("lean"))
    \/ FetchCreated(AuthoredReplies("rich"))
    \/ FetchReviewed(ReviewedReplies("rich"))
    \/ Summarize(AiReplies("rich"))
    \/ PostMessage(Deliveries("rich"))
Spec == Init /\ [][Next]_vars

\* SpecWindow: wide in the request (host zone, clock, date parameter)
InitWindow == InitWith(Hosts("rich"))
NextWindow ==
    \/ \E r \in Routes : GET(r, DateParams("rich"), Nows("rich"))
    \/ \E r \in NotifyRoutes : POST(r, Bodies("rich"), Nows("rich"))
    \/ FetchBranches(BranchReplies("one", untilUtc))
    \/ FetchWindowMRs(MrReplies("one"))
    \/ FetchCommits(CommitReplies("one"))
    \/ FetchCreated(AuthoredReplies("one"))
    \/ FetchReviewed(ReviewedReplies("one"))
    \/ Summarize(AiReplies("one"))
    \/ PostMessage(Deliveries("one"))
SpecWindow == InitWindow /\ [][NextWindow]_vars

\* SpecSelect: wide in the branch listing and the window merge requests
NextSelect ==
    \/ \E r \in Routes : GET(r, DateParams("lean"), Nows("lean"))
    \/ \E r \in NotifyRoutes : POST(r, Bodies("lean"), Nows("lean"))
    \/ FetchBranches(BranchReplies("rich", untilUtc))
    \/ FetchWindowMRs(MrReplies("rich"))
    \/ FetchCommits(CommitReplies("one"))
    \/ FetchCreated(AuthoredReplies("one"))
    \/ FetchReviewed(ReviewedReplies("one"))
    \/ Summarize(AiReplies("one"))
    \/ PostMessage(Deliveries("rich"))
SpecSelect == Init /\ [][NextSelect]_vars

\* SpecCollect: wide in the replies of the per-branch commit queries
NextCollect ==
    \/ \E r \in Routes : GET(r, DateParams("lean"), Nows("lean"))
    \/ \E r \in NotifyRoutes : POST(r, Bodies("lean"), Nows("lean"))
    \/ FetchBranches(BranchReplies("lean", untilUtc))
    \/ FetchWindowMRs(MrReplies("lean"))
    \/ FetchCommits(CommitReplies("rich"))
    \/ FetchCreated(AuthoredReplies("one"))
    \/ FetchReviewed(ReviewedReplies("one"))
    \/ Summarize(AiReplies("one"))
    \/ PostMessage(Deliveries("one"))
SpecCollect == Init /\ [][NextCollect]_vars

----------------------------------------------------------------------------
(* Properties.                                                             *)

Range(xs) == {xs[i] : i \in DOMAIN xs}

\* the loop over the branches is over
Collected == pc \in {"created", "reviewed", "summarize", "post"} \/ (pc = "done" /\ mrRes # <<>>)

\* the commit ids the handler holds: commits, or debugInfo.commitsPerBranch
CollectedIds ==
    IF route = "debug"
    THEN UNION {Range(commitsPerBranch[b].commits) : b \in DOMAIN commitsPerBranch}
    ELSE {commits[i].id : i \in DOMAIN commits}

\* what the commit queries returned so far, concatenated in query order
RECURSIVE Fetched(_)
Fetched(rs) ==
    IF rs = <<>> THEN <<>>
    ELSE Fetched(SubSeq(rs, 1, Len(rs) - 1))
             \o (IF rs[Len(rs)].reply.ok
                 THEN [i \in 1 .. Len(rs[Len(rs)].reply.data) |->
                          [id |-> rs[Len(rs)].reply.data[i], branch |-> rs[Len(rs)].branch]]
                 ELSE <<>>)

FetchedIds == {Fetched(commitRes)[i].id : i \in DOMAIN Fetched(commitRes)}

\* C1: per-branch isolation.  Whatever the other branches' queries did
\* (404, another HTTP error, no response at all), before or after it, every
\* commit a successful branch query returned is among the collected commits;
\* the debug handler keeps it under that branch.
C1_BranchIsolation ==
    \A k \in DOMAIN commitRes :
        commitRes[k].reply.ok =>
            /\ Range(commitRes[k].reply.data) \subseteq CollectedIds
            /\ route = "debug" =>
                   commitsPerBranch[commitRes[k].branch].commits = commitRes[k].reply.data

\* the first branch's query failed, the second returned two commits: both are kept
C1_Witness ==
    /\ route = "eod" /\ pc = "created" /\ Len(commitRes) = 2
    /\ ~commitRes[1].reply.ok /\ commitRes[1].reply.status = NoHttp
    /\ commitRes[2].reply.ok /\ Len(commitRes[2].reply.data) = 2
    /\ Len(commits) = 2

FirstIndex(cs, id) ==
    CHOOSE i \in DOMAIN cs : cs[i].id = id /\ \A j \in 1 .. (i - 1) : cs[j].id # id

\* C2: deduplication is "first occurrences".  Once the loop is over, the
\* notification handlers' commits hold every fetched id exactly once, each
\* record being the first record of its id in the concatenated replies (so
\* with that branch), in the order of those first occurrences.
C2_FirstOccurrences ==
    (route \in NotifyRoutes /\ Collected) =>
        LET in == Fetched(commitRes) IN
        /\ {commits[i].id : i \in DOMAIN commits} = FetchedIds
        /\ \A i, j \in DOMAIN commits : commits[i].id = commits[j].id => i = j
        /\ \A i \in DOMAIN commits : commits[i] = in[FirstIndex(in, commits[i].id)]
        /\ \A i, j \in DOMAIN commits :
               i < j => FirstIndex(in, commits[i].id) < FirstIndex(in, commits[j].id)

\* main returned <<2>>, feature-x <<1, 2>>: 2 stays with main, 1 follows
C2_Witness ==
    /\ route = "eod2" /\ pc = "created"
    /\ Fetched(commitRes) = <<[id |-> 2, branch |-> "main"],
                              [id |-> 1, branch |-> "feature-x"],
                              [id |-> 2, branch |-> "feature-x"]>>
    /\ commits = <<[id |-> 2, branch |-> "main"], [id |-> 1, branch |-> "feature-x"]>>

\* C3: in every entry point the commit count reported for a run (the
\* Commits (n) header of the digest; summary.totalCommitsByYou of the debug
\* report) is the number of distinct commit ids the branches returned.
C3_CountIsDistinct ==
    /\ activity # NoDigest => activity.count = Cardinality(FetchedIds)
    /\ summary # NoSummary => summary.totalCommitsByYou = Cardinality(FetchedIds)

\* the calendar day before a calendar date
PrevDay(dp) ==
    IF dp.d > 1 THEN [y |-> dp.y, m |-> dp.m, d |-> dp.d - 1]
    ELSE IF dp.m > 1 THEN [y |-> dp.y, m |-> dp.m - 1, d |-> DaysInMonth(dp.y, dp.m - 1)]
    ELSE [y |-> dp.y - 1, m |-> 12, d |-> 31]

Iso(day, hh, mi, ss) ==
    [y |-> day.y, m |-> day.m, d |-> day.d, hh |-> hh, mi |-> mi, ss |-> ss]

\* C4: calendar-day window.  For a date parameter that names a calendar day
\* d, in each of the three handlers and whatever the host's zone: the handler
\* goes on, since is 00:00 of d at +05:30 (18:30:00Z of the day before, and
\* midnight of d on the IST label), until is exactly 24 hours later
\* (18:30:00Z of d), and the clock is not read.
C4_CalendarDayWindow ==
    (route # "none" /\ IsCalendarDate(dateParam)) =>
        /\ pc # "idle" /\ response.error # "Invalid time value"
        /\ sinceIso = Iso(PrevDay(dateParam), 18, 30, 0)
        /\ untilIso = Iso(dateParam, 18, 30, 0)
        /\ labels[1] = [y |-> dateParam.y, m |-> dateParam.m, d |-> dateParam.d,
                        hh |-> 0, mi |-> 0]
        /\ untilUtc - sinceUtc = Day
        /\ sinceUtc < untilUtc
        /\ nowRead = Unread

\* 2024-03-01 on a host at UTC-5, debug handler: since is 2024-02-29T18:30:00Z
C4_Witness ==
    /\ route = "debug" /\ pc = "branches" /\ hostTz = 0 - 5 * SecondsPerHour
    /\ dateParam = Ymd(2024, 3, 1)
    /\ sinceIso = [y |-> 2024, m |-> 2, d |-> 29, hh |-> 18, mi |-> 30, ss |-> 0]

\* C5: rolling window.  Without a date parameter, in every handler and for
\* every host zone, the until sent upstream is the instant new Date()
\* returned and the since sent upstream is that instant minus 24 hours.
C5_RollingWindow ==
    (route # "none" /\ nowRead # Unread) =>
        /\ untilUtc = nowRead
        /\ sinceUtc = nowRead - Day
        /\ untilIso = toISOString(nowRead)
        /\ sinceIso = toISOString(nowRead - Day)

\* C6: invalid date.  A date parameter that is present and non-empty but
\* does not name a calendar day ends the request, in every handler, with
\* the failure response (500, ok false) and no window.
C6_InvalidDateFails ==
    (route # "none" /\ Truthy(dateParam) /\ ~IsCalendarDate(dateParam)) =>
        /\ pc = "done"
        /\ response.status = 500 /\ response.ok = "false"
        /\ sinceIso = NoIso /\ untilIso = NoIso

\* the replies of the two listings of the branch selector, once they are in
BranchListed == branchesRes # <<>> /\ branchesRes[1].ok
BranchListFailed == branchesRes # <<>> /\ ~branchesRes[1].ok
MrListed == mrRes # <<>> /\ mrRes[1].ok
MrListFailed == mrRes # <<>> /\ ~mrRes[1].ok

\* the branch has a latest commit, less than 7 days before until
RecentBefore(b, until) == b.hasCommit /\ until - b.created_at < 7 * Day

RecentNames(data, until) ==
    LET Test(b) == RecentBefore(b, until)
        kept == SelectSeq(data, Test)
    IN  [i \in 1 .. Len(kept) |-> kept[i].name]

\* C7: active-branch predicate.  A listed branch counts as active exactly
\* when it has a latest commit whose instant is strictly after until minus
\* 7 days (until being the window's, not the clock's): the debug handler
\* flags it so, and the notification handlers put exactly those names, in
\* listing order, at the head of allBranches.
C7_ActivePredicate ==
    BranchListed =>
        LET data == branchesRes[1].data IN
        /\ route = "debug" =>
               /\ Len(debugBranches) = Len(data)
               /\ \A i \in DOMAIN data :
                      /\ debugBranches[i].name = data[i].name
                      /\ debugBranches[i].isActive <=> RecentBefore(data[i], untilUtc)
        /\ route \in NotifyRoutes =>
               allBranches = RecentNames(data, untilUtc) \o mrBranches

\* main's latest commit is exactly 7 days before until, feature-x's one second later
C7_Witness ==
    /\ route = "eod" /\ pc = "windowMRs" /\ BranchListed
    /\ branchesRes[1].data =
           <<Branch("main", TRUE, untilUtc - 7 * Day),
             Branch("feature-x", TRUE, untilUtc - 7 * Day + 1)>>
    /\ untilUtc # nowRead
    /\ allBranches = <<"feature-x">>

\* C8: branch selection result.  The list handed to the commit collector is,
\* as a set, the active branch names together with the merge requests'
\* source branches (each empty when its listing failed) without null or
\* empty names; no name is in it twice, and the loop queries each of its
\* branches once, in its order.
C8_SelectedIsUnion ==
    mrRes # <<>> =>
        LET act == IF BranchListed
                   THEN Range(RecentNames(branchesRes[1].data, untilUtc)) ELSE {}
            src == IF MrListed
                   THEN {mrRes[1].data[i].source_branch : i \in DOMAIN mrRes[1].data}
                   ELSE {}
        IN  /\ Range(branches) = (act \cup src) \ {NoName}
            /\ \A i, j \in DOMAIN branches : branches[i] = branches[j] => i = j
            /\ Len(commitRes) <= Len(branches)
            /\ \A i \in DOMAIN commitRes : commitRes[i].branch = branches[i]
            /\ Collected => Len(commitRes) = Len(branches)

\* both branches active, merge requests from null and from feature-x
C8_Witness ==
    /\ pc = "created" /\ BranchListed /\ MrListed
    /\ RecentNames(branchesRes[1].data, untilUtc) = <<"main", "feature-x">>
    /\ mrRes[1].data = <<MR(1, NoName), MR(2, "feature-x")>>
    /\ branches = <<"main", "feature-x">>
    /\ Len(commitRes) = 2

Margins ==
    {RecencyMargin - Day, RecencyMargin - 1, RecencyMargin, RecencyMargin + 1,
     RecencyMargin + Day}

\* C9: monotonicity in the recency margin.  For the listing received and
\* the window resolved, a larger margin never loses an active branch; the
\* handler's own active list is the one of the 7-day margin.
C9_MarginMonotonic ==
    BranchListed =>
        LET data == branchesRes[1].data IN
        /\ \A m1, m2 \in Margins :
               m1 <= m2 =>
                   Range(ActiveBranches(data, untilUtc, m1))
                       \subseteq Range(ActiveBranches(data, untilUtc, m2))
        /\ (route \in NotifyRoutes /\ pc = "windowMRs") =>
               allBranches = ActiveBranches(data, untilUtc, RecencyMargin)

\* a branch that only the wider margin takes in
C9_Witness ==
    /\ BranchListed /\ pc = "windowMRs" /\ route = "eod2"
    /\ ActiveBranches(branchesRes[1].data, untilUtc, RecencyMargin) = <<"main">>
    /\ ActiveBranches(branchesRes[1].data, untilUtc, RecencyMargin + 1)
           = <<"main", "feature-x">>

\* C10: branch-selector partial failure.  A failed branch listing leaves the
\* active set empty and a failed merge-request listing leaves the MR-branch
\* set empty; the other listing's branches are still selected; each failure
\* is recorded (console.warn, or debugInfo.errors); the handler goes on to
\* its later steps and the failure is never what the caller is answered.
C10_SelectorPartialFailure ==
    /\ BranchListFailed =>
           /\ route = "debug" =>
                  debugBranches = <<>> /\ Warn("branches", "") \in Range(errors)
           /\ route \in NotifyRoutes =>
                  allBranches = mrBranches /\ Warn("branches", "") \in Range(log)
           /\ MrListed =>
                  Range(branches) =
                      {mrRes[1].data[i].source_branch : i \in DOMAIN mrRes[1].data} \ {NoName}
    /\ MrListFailed =>
           /\ mrBranches = <<>>
           /\ route = "debug" => Warn("windowMRs", "") \in Range(errors)
           /\ route \in NotifyRoutes => Warn("windowMRs", "") \in Range(log)
           /\ BranchListed =>
                  Range(branches) = Range(RecentNames(branchesRes[1].data, untilUtc))
    /\ (BranchListFailed \/ MrListFailed) =>
           /\ pc # "done" => response = NoResponse
           /\ pc = "done" =>
                  /\ mrRes # <<>>
                  /\ Len(commitRes) = Len(branches)
                  /\ response \in (IF route = "debug" THEN {Report}
                                   ELSE {Sent, Failure("slack")})

\* the branch listing failed, the merge requests name feature-x and main:
\* both are queried and the digest is delivered
C10_Witness ==
    /\ route = "eod" /\ pc = "done" /\ BranchListFailed /\ MrListed
    /\ branches = <<"feature-x", "main">>
    /\ Len(commitRes) = 2
    /\ response = Sent

\* a warning is on record against branch b
WarnedFor(b) == Warn("commits", b) \in Range(log)

\* what the handler holds of branch b: its records in commits, or its entry
\* of debugInfo.commitsPerBranch
HeldOf(b) ==
    IF route = "debug"
    THEN commitsPerBranch[b].count
    ELSE Cardinality({i \in DOMAIN commits : commits[i].branch = b})

\* C11: recording of per-branch commit-query failures.  A branch whose query
\* failed with 404 has zero commits and no warning; a branch whose query
\* failed in any other way (another HTTP status, or an error without an HTTP
\* response) has zero commits and a warning against it; either way the loop
\* goes on to the next branch, so that after the loop every selected branch
\* has been queried.
C11_CommitFailureRecording ==
    /\ \A k \in DOMAIN commitRes :
           LET b == commitRes[k].branch
               rep == commitRes[k].reply
           IN  ~rep.ok =>
                   /\ HeldOf(b) = 0
                   /\ rep.status = 404 => ~WarnedFor(b)
                   /\ rep.status # 404 => WarnedFor(b)
    /\ pc = "commits" => Len(commitRes) = idx - 1
    /\ Collected => Len(commitRes) = Len(branches)

\* the commits the handler holds are what the commit queries returned
CommitsAsFetched ==
    IF route = "debug"
    THEN \A k \in DOMAIN commitRes :
             commitsPerBranch[commitRes[k].branch] = BranchEntry(commitRes[k].reply)
    ELSE commits = DedupeById(Fetched(commitRes))

\* the warning (debugInfo.errors entry in the debug handler) of a failed step
Recorded(what) ==
    IF route = "debug" THEN Warn(what, "") \in Range(errors)
    ELSE Warn(what, "") \in Range(log)

\* C12: independent degradation of the two merge-request collectors.  For
\* each of the four outcomes of the authored and the reviewed query: a failed
\* query leaves its own list empty and is recorded, a successful one gives
\* its list exactly what it returned and records nothing, whatever the other
\* did; the reviewed query is made whatever the authored one did; the
\* commits stay what the commit queries returned; and the caller is never
\* answered with the failure of either (only a failed delivery gives 500).
C12_CollectorsIndependent ==
    /\ createdRes # <<>> =>
           /\ createdMRs = (IF createdRes[1].ok THEN MrLines(createdRes[1].data) ELSE <<>>)
           /\ Recorded("created") <=> ~createdRes[1].ok
           /\ CommitsAsFetched
           /\ pc = "done" => reviewedRes # <<>>
    /\ reviewedRes # <<>> =>
           /\ createdRes # <<>>
           /\ reviewedMRs = (IF reviewedRes[1].ok THEN MrLines(reviewedRes[1].data) ELSE <<>>)
           /\ Recorded("reviewed") <=> ~reviewedRes[1].ok
           /\ CommitsAsFetched
           /\ route \in NotifyRoutes =>
                  /\ activity.count = Len(commits)
                  /\ response \in {NoResponse, Sent, Failure("slack")}
                  /\ response = Failure("slack") => posted = <<>>
           /\ route = "debug" => response = Report

\* the authored query failed, the reviewed one returned a merge request,
\* the commit of the window is in the digest, and the digest was delivered
C12_Witness ==
    /\ route = "eod" /\ pc = "done" /\ response = Sent
    /\ createdRes # <<>> /\ ~createdRes[1].ok /\ createdMRs = <<>>
    /\ reviewedRes # <<>> /\ reviewedRes[1].ok /\ Len(reviewedMRs) = 1
    /\ Len(commits) = 1 /\ activity.count = 1

\* the fields of the debug response when every sub-fetch succeeds
AllSuccessKeys ==
    DebugInfoInit \cup
        {"branchStats", "branchSelection", "summary", "mrsSummary.updatedInWindow",
         "mrsSummary.createdByUser", "mrsSummary.reviewedByUser"}

\* C13: debug response completeness.  Whatever sub-fetches failed, the
\* debug response carries the fields of the all-success response: the
\* window, the branch list and the branch statistics, the per-branch commit
\* breakdown with an entry for every selected branch, the three merge-request
\* lists, and the error list; a failed part is an empty array.
C13_DebugComplete ==
    (route = "debug" /\ response = Report) =>
        /\ debugKeys = AllSuccessKeys
        /\ DOMAIN commitsPerBranch = Range(branches)
        /\ BranchListFailed => debugBranches = <<>>
        /\ ~createdRes[1].ok => createdMRs = <<>>
        /\ ~reviewedRes[1].ok => reviewedMRs = <<>>

\* C14: empty-window rendering.  In the digest of a notification run the
\* Commits header counts the deduplicated commits; when the commits and both
\* merge-request lists are empty (nothing found, or every fetch failed) the
\* count is 0 and "MRs Created" and "MRs Reviewed" each hold the single word
\* None; and a section holds None only when its list is empty, the lines of
\* its list otherwise.
C14_EmptyRendering ==
    (route \in NotifyRoutes /\ activity # NoDigest) =>
        /\ activity.count = Len(commits)
        /\ (commits = <<>> /\ createdMRs = <<>> /\ reviewedMRs = <<>>) =>
               /\ activity.count = 0
               /\ activity.created = <<NoneLine>>
               /\ activity.reviewed = <<NoneLine>>
        /\ NoneLine \in Range(activity.commits) <=> commits = <<>>
        /\ NoneLine \in Range(activity.created) <=> createdMRs = <<>>
        /\ NoneLine \in Range(activity.reviewed) <=> reviewedMRs = <<>>
        /\ createdMRs # <<>> => activity.created = createdMRs
        /\ reviewedMRs # <<>> => activity.reviewed = reviewedMRs
        /\ commits # <<>> => activity.commits = CommitLines(commits)

\* every fetch failed: count 0 and None twice, delivered as the raw digest
C14_Witness ==
    /\ route = "eod2" /\ pc = "post"
    /\ BranchListFailed /\ MrListFailed /\ ~createdRes[1].ok /\ ~reviewedRes[1].ok
    /\ activity.count = 0
    /\ activity.created = <<NoneLine>> /\ activity.reviewed = <<NoneLine>>

\* nothing failed and nothing was found in one list only
C14_WitnessMixed ==
    /\ route = "eod" /\ pc = "post"
    /\ createdRes[1].ok /\ createdMRs = <<>> /\ activity.created = <<NoneLine>>
    /\ Len(reviewedMRs) = 1 /\ activity.reviewed = reviewedMRs
    /\ activity.count = 1

\* t is c without its leading and trailing blanks
IsTrimOf(t, c) ==
    /\ t # <<>> => Head(t) # " " /\ t[Len(t)] # " "
    /\ \E i \in 0 .. Len(c) - Len(t) :
           /\ SubSeq(c, i + 1, i + Len(t)) = t
           /\ \A j \in (1 .. i) \cup ((i + Len(t) + 1) .. Len(c)) : c[j] = " "

\* the summarizer answered with a text that is not empty once trimmed
Summarized ==
    /\ aiResponse[1].ok /\ aiResponse[1].has
    /\ \E j \in DOMAIN aiResponse[1].content : aiResponse[1].content[j] # " "

\* C15: summarizer fallback.  Once the summarizer call is over, the text
\* to deliver (and the text delivered, if any) is the summarizer's reply
\* trimmed when the call succeeded with a content that is not empty once
\* trimmed, and exactly the rendered digest when the call failed, or its
\* reply has no content, an empty one or blanks only; a failed call is
\* recorded, and the caller gets ok, or the 500 of a failed delivery.
C15_SummarizerFallback ==
    (route \in NotifyRoutes /\ aiResponse # <<>>) =>
        /\ Summarized =>
               /\ eodSummary.kind = "ai"
               /\ IsTrimOf(eodSummary.text, aiResponse[1].content)
        /\ ~Summarized => eodSummary = RawDigest(activity)
        /\ \A i \in DOMAIN posted : posted[i] = eodSummary
        /\ ~aiResponse[1].ok <=> Warn("openai", "") \in Range(log)
        /\ pc = "post" => response = NoResponse
        /\ pc = "done" =>
               \/ response = Sent /\ posted = <<eodSummary>>
               \/ response = Failure("slack") /\ posted = <<>>

\* the summarizer call failed and the raw digest was delivered
C15_Witness ==
    /\ route = "eod" /\ pc = "done" /\ response = Sent
    /\ ~aiResponse[1].ok
    /\ posted = <<RawDigest(activity)>> /\ activity.count = 1

\* the summarizer's " x " was delivered as "x"
C15_WitnessTrimmed ==
    /\ route = "eod2" /\ pc = "done" /\ response = Sent
    /\ aiResponse[1].content = <<" ", "x", " ">>
    /\ posted = <<AiText(<<"x">>)>>

\* the date parameter was given and did not parse: toISOString threw
WindowFailed == Truthy(dateParam) /\ sinceUtc = NaN

\* slack.chat.postMessage was called and threw
DeliveryFailed == aiResponse # <<>> /\ pc = "done" /\ posted = <<>>

\* C16: failure propagation in the notification route.  A request ends
\* in the failure response (status 500, ok false) exactly when the window
\* resolution failed on the date parameter or the delivery failed; every
\* other finished request is answered 200 with ok true, whatever branch,
\* commit, merge-request or summarizer calls failed; ok true is never the
\* answer to a failed delivery; no response is made before the end.
C16_FailurePropagation ==
    route \in NotifyRoutes =>
        /\ pc # "done" => response = NoResponse
        /\ pc = "done" =>
               /\ (response.status = 500 /\ response.ok = "false")
                      <=> (WindowFailed \/ DeliveryFailed)
               /\ ~(WindowFailed \/ DeliveryFailed) => response = Sent
               /\ response.ok = "true" => posted # <<>>

\* every call that precedes the delivery has returned or thrown
AllCollected ==
    /\ branchesRes # <<>> /\ mrRes # <<>>
    /\ Len(commitRes) = Len(branches)
    /\ \A k \in DOMAIN branches : commitRes[k].branch = branches[k]
    /\ createdRes # <<>> /\ reviewedRes # <<>>
    /\ aiResponse # <<>>

\* C17: ordering and multiplicity of the delivery.  In a notification
\* request the message is posted at most once; it is posted only when the
\* two listings of the branch selection, the commit query of every selected
\* branch, both merge-request queries and the summarizer call are over; it
\* is not posted when the date parameter does not name a calendar day; and
\* ok true is answered only when the message was posted.
C17_PostOrdering ==
    route \in NotifyRoutes =>
        /\ Len(posted) <= 1
        /\ posted # <<>> => AllCollected /\ pc = "done"
        /\ (Truthy(dateParam) /\ ~IsCalendarDate(dateParam)) => posted = <<>>
        /\ response.ok = "true" => Len(posted) = 1 /\ pc = "done"

====
